---- MODULE Spec2Model ----
(***************************************************************************)
(* BubblesRising (src/src/index.ts, final version of the class, lines      *)
(* 254-529): lifecycle, animation-frame loop, resize observer, particle     *)
(* spawning, pooling and per-tick update.                                   *)
(*                                                                         *)
(* Numbers are fixed point:                                                 *)
(*   time            1/100 ms           (16.67 ms = 1667)                   *)
(*   opacity         1/16670000         (1.0 = 16670000, so that            *)
(*                                       opacityDecay * (dt / 16.67) is the *)
(*                                       integer 15 * dt)                   *)
(*   x, y, size      1/10000 px                                             *)
(*   velocityX       1/10000 px per nominal frame                           *)
(*   Math.random()   k / RandDen, k in 0 .. RandDen-1                       *)
(***************************************************************************)
EXTENDS Integers, Sequences, FiniteSets, TLC

\* ------------------------------------------------------------------ bounds
\* Number of external events of one behaviour: time advances, init() calls and
\* layout changes of the container together.
MaxEvents == 3

\* --------------------------------------------------------- program constants
PARTICLE_ADD_INTERVAL == 50000
PARTICLE_COUNT == 30
MAX_ELAPSED_TIME == 40000
DEFAULT_VELOCITY_X == 200
DEFAULT_OPACITY_DECAY == 15
ACCELERATION_Y_DIVISOR == -120000
ACCELERATION_FACTOR_DIVISOR == 10000
WOBBLE_RANGE == <<-75, 75>>
NominalFrame == 1667
OpacityOne == 16670000
PosScale == 10000
TimeScale == 100
BaseWidth == 1920
BaseHeight == 1080
MinParticles == 10
MaxParticles == 100
DefaultCanvasWidth == 300
DefaultCanvasHeight == 150

\* ------------------------------------------------------- environment inputs
\* Math.random(): a generator with period Len(RandSeq) over k / RandDen.
RandDen == 4
RandSeq == <<0, 3, 1, 2, 3, 0, 2>>
\* states the generator may start in
Seeds == {0, 3}
\* Time that may pass between two handlers: one nominal frame, one frame less
\* than the spawn interval, the spawn interval, and two long pauses (hidden
\* tab), one shorter and one longer than the time a particle takes to fade.
Deltas == {1667, 48333, 50000, 600000, 1200000}
\* clientWidth x clientHeight of the container.
ClientSizes == {<<0, 0>>, <<1280, 720>>}
\* options.sizes
SizeOptions == {<<3, 12>>, <<4, 4>>}

\* ------------------------------------------------------------------ helpers
Max(a, b) == IF a >= b THEN a ELSE b
Min(a, b) == IF a <= b THEN a ELSE b

\* floor(a * b / c) for c > 0, without leaving 32 bits.
MulDiv(a, b, c) == (a \div c) * b + (a % c) * (b \div c) + ((a % c) * (b % c)) \div c

\* Math.random(): the n-th draw of a generator in state s.
Random(s, n) == RandSeq[((s + n) % Len(RandSeq)) + 1]

\* randomFloat as Math.random() * max + min
randomFloatNoSpan(k, min, max) == (k * max) \div RandDen + min

\* randomFloat(min, max) = Math.random() * (max - min) + min, on scaled ints.
randomFloat(k, min, max) == (k * (max - min)) \div RandDen + min

\* ------------------------------------------------ IEEE-754 double arithmetic
\* calculateParticleCount divides and multiplies in double precision: the
\* quotient area / baseArea is rounded to 53 significant bits before it is
\* multiplied by PARTICLE_COUNT, and the product is rounded again.  A positive
\* double is [m |-> its 53 significant bits, most significant first,
\* e |-> number of those bits left of the binary point].  Bit strings are
\* processed in limbs of LimbBits bits to keep the arithmetic inside 32 bits.
MantissaBits == 53
LimbBits == 8
LimbBase == 256
QuotientLimbs == 10

RECURSIVE IntBits(_)
IntBits(n) == IF n = 0 THEN <<>> ELSE Append(IntBits(n \div 2), n % 2)

\* the bits of limbs (most significant limb first), most significant first
LimbsToBits(limbs) ==
  [i \in 1 .. LimbBits * Len(limbs) |->
     (limbs[((i - 1) \div LimbBits) + 1] \div 2^(LimbBits - 1 - ((i - 1) % LimbBits))) % 2]

\* the limbs (least significant first) of a bit string (most significant first)
BitsToLimbsLE(bits) ==
  LET n == Len(bits)
      bit(i) == IF i >= 1 THEN bits[i] ELSE 0
  IN  [j \in 1 .. (n + LimbBits - 1) \div LimbBits |->
         LET top == n - LimbBits * j
         IN  bit(top + 1) * 128 + bit(top + 2) * 64 + bit(top + 3) * 32 + bit(top + 4) * 16
             + bit(top + 5) * 8 + bit(top + 6) * 4 + bit(top + 7) * 2 + bit(top + 8)]

ReverseSeq(q) == [i \in 1 .. Len(q) |-> q[Len(q) + 1 - i]]

\* limbs (least significant first) * c + carry, for 0 <= c, carry < LimbBase
RECURSIVE MulLimbs(_, _, _)
MulLimbs(limbs, c, carry) ==
  IF limbs = <<>> THEN (IF carry = 0 THEN <<>> ELSE <<carry>>)
  ELSE LET t == Head(limbs) * c + carry
       IN  <<t % LimbBase>> \o MulLimbs(Tail(limbs), c, t \div LimbBase)

\* bit string * c + carry, as a bit string
MulBits(bits, c, carry) == LimbsToBits(ReverseSeq(MulLimbs(BitsToLimbsLE(bits), c, carry)))

\* the first n limbs of the binary fraction r / b, for 0 <= r < b
RECURSIVE FracLimbs(_, _, _)
FracLimbs(r, b, n) ==
  IF n = 0 THEN <<>>
  ELSE <<(r * LimbBase) \div b>> \o FracLimbs((r * LimbBase) % b, b, n - 1)

RECURSIVE FracRem(_, _, _)
FracRem(r, b, n) == IF n = 0 THEN r ELSE FracRem((r * LimbBase) % b, b, n - 1)

LeadingZeros(bits) ==
  IF \A i \in 1 .. Len(bits) : bits[i] = 0 THEN Len(bits)
  ELSE (CHOOSE i \in 1 .. Len(bits) : bits[i] = 1 /\ \A j \in 1 .. i - 1 : bits[j] = 0) - 1

RECURSIVE BitsValue(_)
BitsValue(bits) ==
  IF bits = <<>> THEN 0
  ELSE 2 * BitsValue(SubSeq(bits, 1, Len(bits) - 1)) + bits[Len(bits)]

\* Round the non-zero bit string `bits` (most significant first, the last
\* `frac` bits right of the binary point, `sticky` when non-zero bits were cut
\* off behind it) to the nearest double, ties to even.
RoundToDouble(bits, frac, sticky) ==
  LET z     == LeadingZeros(bits)
      sig   == SubSeq(bits, z + 1, Len(bits))
      e     == Len(sig) - frac
      pad   == [i \in 1 .. MantissaBits + 1 |-> IF i <= Len(sig) THEN sig[i] ELSE 0]
      m     == SubSeq(pad, 1, MantissaBits)
      round == pad[MantissaBits + 1]
      rest  == sticky \/ \E i \in MantissaBits + 2 .. Len(sig) : sig[i] = 1
      up    == round = 1 /\ (rest \/ m[MantissaBits] = 1)
      inc   == LET b == MulBits(m, 1, 1)
               IN  SubSeq(b, LeadingZeros(b) + 1, Len(b))
  IN  IF ~up THEN [m |-> m, e |-> e]
      ELSE IF Len(inc) > MantissaBits
           THEN [m |-> SubSeq(inc, 1, MantissaBits), e |-> e + 1]
           ELSE [m |-> inc, e |-> e]

\* a / b in double precision, for integers 0 < a, 0 < b < 2^31 / LimbBase
DoubleDiv(a, b) ==
  RoundToDouble(IntBits(a \div b) \o LimbsToBits(FracLimbs(a % b, b, QuotientLimbs)),
                LimbBits * QuotientLimbs,
                FracRem(a % b, b, QuotientLimbs) # 0)

\* c * d in double precision, for an integer 0 < c < LimbBase and a double d
DoubleMulInt(c, d) == RoundToDouble(MulBits(d.m, c, 0), MantissaBits - d.e, FALSE)

\* Math.round of a positive double below 2^31: nearest integer, ties up
MathRound(d) ==
  IF d.e < 0 THEN 0
  ELSE BitsValue(SubSeq(d.m, 1, d.e)) + d.m[d.e + 1]

\* calculateParticleCount (index.ts 352-363)
calculateParticleCount(w, h) ==
  LET area == w * h
      baseArea == BaseWidth * BaseHeight
      rounded == IF area = 0 THEN 0
                 ELSE MathRound(DoubleMulInt(PARTICLE_COUNT, DoubleDiv(area, baseArea)))
  IN  Max(MinParticles, Min(MaxParticles, rounded))

\* ---------------------------------------------------------------- particles
\* A Particle record (index.ts 254-265) plus id, the identity of the object.
\* accelerationY is kept in units of 1 / (100 * 120000) px/ms^2 (negative),
\* accelerationFactor in units of 1 / (100 * 10000).

\* createParticle (index.ts 422-437); k1..k3 are its three Math.random() draws
createParticle(id, x, y, sizes, k1, k2, k3) ==
  [id                 |-> id,
   x                  |-> x,
   y                  |-> y,
   size               |-> randomFloat(k1, sizes[1] * PosScale, sizes[2] * PosScale),
   accelerationY      |-> -randomFloat(k2, 50, 150),
   accelerationFactor |-> randomFloat(k3, 20, 50),
   velocityX          |-> DEFAULT_VELOCITY_X,
   initialX           |-> x,
   elapsedTime        |-> 0,
   opacity            |-> OpacityOne,
   opacityDecay       |-> DEFAULT_OPACITY_DECAY]

\* resetParticle that leaves elapsedTime as it was
resetParticleKeepsAge(particle, x, y, sizes, k1, k2, k3) ==
  [particle EXCEPT
     !.x                  = x,
     !.y                  = y,
     !.size               = randomFloat(k1, sizes[1] * PosScale, sizes[2] * PosScale),
     !.accelerationY      = -randomFloat(k2, 50, 150),
     !.accelerationFactor = randomFloat(k3, 20, 50),
     !.velocityX          = DEFAULT_VELOCITY_X,
     !.initialX           = x,
     !.opacity            = OpacityOne,
     !.opacityDecay       = DEFAULT_OPACITY_DECAY]

\* resetParticle (index.ts 439-453): the same object, fields assigned in place
resetParticle(particle, x, y, sizes, k1, k2, k3) ==
  [particle EXCEPT
     !.x                  = x,
     !.y                  = y,
     !.size               = randomFloat(k1, sizes[1] * PosScale, sizes[2] * PosScale),
     !.accelerationY      = -randomFloat(k2, 50, 150),
     !.accelerationFactor = randomFloat(k3, 20, 50),
     !.velocityX          = DEFAULT_VELOCITY_X,
     !.initialX           = x,
     !.elapsedTime        = 0,
     !.opacity            = OpacityOne,
     !.opacityDecay       = DEFAULT_OPACITY_DECAY]

\* the fade without the maturity test
FadedOpacityNoThreshold(particle, elapsed, deltaTime) ==
  Max(0, particle.opacity - particle.opacityDecay * deltaTime)

\* the fade with == for >= in the maturity test
FadedOpacityAtThresholdOnly(particle, elapsed, deltaTime) ==
  IF elapsed = MAX_ELAPSED_TIME
  THEN Max(0, particle.opacity - particle.opacityDecay * deltaTime)
  ELSE particle.opacity

\* the fade of updateParticle (index.ts 467-472)
FadedOpacity(particle, elapsed, deltaTime) ==
  IF elapsed >= MAX_ELAPSED_TIME
  THEN Max(0, particle.opacity - particle.opacityDecay * deltaTime)
  ELSE particle.opacity

\* updateParticle that does not add deltaTime to elapsedTime
updateParticleNoAge(particle, deltaTime, h, k) ==
  LET elapsed       == particle.elapsedTime
      accelerationX == MulDiv(particle.initialX - particle.x, particle.accelerationFactor,
                              100 * ACCELERATION_FACTOR_DIVISOR)
      wobble        == randomFloat(k, WOBBLE_RANGE[1], WOBBLE_RANGE[2])
      velocityX     == particle.velocityX + MulDiv(deltaTime, accelerationX + wobble, NominalFrame)
      ms            == elapsed \div TimeScale
  IN  [particle EXCEPT
         !.velocityX   = velocityX,
         !.x           = particle.x + MulDiv(deltaTime, velocityX, NominalFrame),
         !.y           = MulDiv(MulDiv(ms, ms, 100), particle.accelerationY,
                                (2 * (-ACCELERATION_Y_DIVISOR)) \div PosScale)
                         + h * PosScale + particle.size * 3,
         !.opacity     = FadedOpacity(particle, elapsed, deltaTime)]

\* updateParticle (index.ts 455-473); k is its Math.random() draw (wobble),
\* h the engine's height.  deltaTime / 16.67 is applied as * deltaTime / 1667.
updateParticle(particle, deltaTime, h, k) ==
  LET elapsed       == particle.elapsedTime + deltaTime
      accelerationX == MulDiv(particle.initialX - particle.x, particle.accelerationFactor,
                              100 * ACCELERATION_FACTOR_DIVISOR)
      wobble        == randomFloat(k, WOBBLE_RANGE[1], WOBBLE_RANGE[2])
      velocityX     == particle.velocityX + MulDiv(deltaTime, accelerationX + wobble, NominalFrame)
      ms            == elapsed \div TimeScale
  IN  [particle EXCEPT
         !.elapsedTime = elapsed,
         !.velocityX   = velocityX,
         !.x           = particle.x + MulDiv(deltaTime, velocityX, NominalFrame),
         !.y           = MulDiv(MulDiv(ms, ms, 100), particle.accelerationY,
                                (2 * (-ACCELERATION_Y_DIVISOR)) \div PosScale)
                         + h * PosScale + particle.size * 3,
         !.opacity     = FadedOpacity(particle, elapsed, deltaTime)]

\* addParticles that never takes a record from the pool
PoolNeverUsed(pool) == FALSE

\* the pool branch of addParticles (index.ts 410)
PoolHasRecord(pool) == Len(pool) > 0

\* One iteration of the loop of addParticles (index.ts 405-419).  st is
\* [particles, particlePool, allocated, n]: n counts the Math.random() calls
\* made so far by the running handler, s is the generator's state before it.
addParticlesStep(st, w, h, sizes, s) ==
  LET startX == (Random(s, st.n) * w * PosScale) \div RandDen
      k1 == Random(s, st.n + 1)
      k2 == Random(s, st.n + 2)
      k3 == Random(s, st.n + 3)
      reuse == PoolHasRecord(st.particlePool)
      particle ==
        IF reuse
        THEN resetParticle(st.particlePool[Len(st.particlePool)], startX, h * PosScale,
                           sizes, k1, k2, k3)
        ELSE createParticle(st.allocated + 1, startX, h * PosScale, sizes, k1, k2, k3)
  IN  [particles    |-> Append(st.particles, particle),
       particlePool |-> IF reuse
                        THEN SubSeq(st.particlePool, 1, Len(st.particlePool) - 1)
                        ELSE st.particlePool,
       allocated    |-> IF reuse THEN st.allocated ELSE st.allocated + 1,
       n            |-> st.n + 4]

\* Iterations lo .. hi-1 of the loop of addParticles, in order (the range is
\* evaluated in two halves, first lo .. mid-1, then mid .. hi-1).
RECURSIVE addParticlesRange(_, _, _, _, _, _, _)
addParticlesRange(lo, hi, st, w, h, sizes, s) ==
  IF lo >= hi THEN st
  ELSE IF hi = lo + 1 THEN addParticlesStep(st, w, h, sizes, s)
  ELSE LET mid  == (lo + hi) \div 2
           left == addParticlesRange(lo, mid, st, w, h, sizes, s)
       IN  IF left.n >= 0 THEN addParticlesRange(mid, hi, left, w, h, sizes, s) ELSE left

\* addParticles (index.ts 404-420)
addParticles(count, st, w, h, sizes, s) == addParticlesRange(0, count, st, w, h, sizes, s)

\* the retirement test with < for <=
RetiredStrict(particle) == particle.opacity < 0

\* the retirement test of render (index.ts 397)
Retired(particle) == particle.opacity <= 0

\* splice(i, 1) on a 1-based sequence
Splice(q, i) == SubSeq(q, 1, i - 1) \o SubSeq(q, i + 1, Len(q))

\* the loop body of render without the splice
renderStepNoSplice(i, st, deltaTime, h, s) ==
  LET particle == updateParticle(st.particles[i + 1], deltaTime, h, Random(s, st.n))
      updated  == [st.particles EXCEPT ![i + 1] = particle]
  IN  [particles    |-> updated,
       particlePool |-> IF Retired(particle)
                        THEN Append(st.particlePool, particle)
                        ELSE st.particlePool,
       allocated    |-> st.allocated,
       n            |-> st.n + 1]

\* the loop body of render without returnParticleToPool
renderStepNoReturn(i, st, deltaTime, h, s) ==
  LET particle == updateParticle(st.particles[i + 1], deltaTime, h, Random(s, st.n))
      updated  == [st.particles EXCEPT ![i + 1] = particle]
  IN  [particles    |-> IF Retired(particle) THEN Splice(updated, i + 1) ELSE updated,
       particlePool |-> st.particlePool,
       allocated    |-> st.allocated,
       n            |-> st.n + 1]

\* One iteration of the loop of render (index.ts 392-400) at 0-based index i
renderStep(i, st, deltaTime, h, s) ==
  LET particle == updateParticle(st.particles[i + 1], deltaTime, h, Random(s, st.n))
      updated  == [st.particles EXCEPT ![i + 1] = particle]
  IN  [particles    |-> IF Retired(particle) THEN Splice(updated, i + 1) ELSE updated,
       particlePool |-> IF Retired(particle)
                        THEN Append(st.particlePool, particle)
                        ELSE st.particlePool,
       allocated    |-> st.allocated,
       n            |-> st.n + 1]

\* Iterations i = hi, hi-1, .., lo of the loop of render, in that order (the
\* range is evaluated in two halves, first hi .. mid, then mid-1 .. lo).
RECURSIVE renderRange(_, _, _, _, _, _)
renderRange(hi, lo, st, deltaTime, h, s) ==
  IF hi < lo THEN st
  ELSE IF hi = lo THEN renderStep(hi, st, deltaTime, h, s)
  ELSE LET mid   == (lo + hi + 1) \div 2
           upper == renderRange(hi, mid, st, deltaTime, h, s)
       IN  IF upper.n >= 0 THEN renderRange(mid - 1, lo, upper, deltaTime, h, s) ELSE upper

\* render (index.ts 385-402), called with ctx non-null
render(st, deltaTime, h, s) == renderRange(Len(st.particles) - 1, 0, st, deltaTime, h, s)

\* -------------------------------------------------------------------- state
VARIABLES
  now,                 \* performance.now()
  element,             \* the container element exists in the document
  clientWidth,         \* container.clientWidth
  clientHeight,        \* container.clientHeight
  container,           \* this.container is non-null
  canvas,              \* this.canvas is non-null
  ctx,                 \* this.ctx is non-null
  canvasAttached,      \* the canvas element has a parentNode
  canvasWidth,         \* canvas.width
  canvasHeight,        \* canvas.height
  width,
  height,
  sizes,
  particles,
  particlePool,
  allocated,           \* number of Particle objects created so far
  lastParticleAddTime,
  lastFrameTime,
  resizeObserver,      \* 0 for null, else an index into observers
  observers,           \* the ResizeObserver objects created so far
  resizeScheduled,
  rng,                 \* state of the Math.random() generator
  animationFrameId,    \* 0 for null, else a requestAnimationFrame handle
  frames,              \* pending requestAnimationFrame callbacks
  frameSeq,            \* last handle requestAnimationFrame returned
  threw,               \* a handler dereferenced null
  destroys,            \* calls of destroy() so far: 0, 1, 2 for two or more
  inert,               \* the constructor got no container or no 2D context
  lastOp,              \* the handler that ran last
  tickInfo,            \* what the last run of renderLoop did
  events               \* external events so far

vars == <<now, element, clientWidth, clientHeight, container, canvas, ctx, canvasAttached,
          canvasWidth, canvasHeight, width, height, sizes, particles, particlePool,
          allocated, lastParticleAddTime, lastFrameTime, resizeObserver, observers,
          resizeScheduled, rng, animationFrameId, frames, frameSeq, threw, destroys, inert,
          lastOp,
          tickInfo, events>>

envVars == <<element, clientWidth, clientHeight>>
domVars == <<container, canvas, ctx, canvasAttached>>
dimVars == <<width, height, canvasWidth, canvasHeight>>
particleVars == <<particles, particlePool, allocated, lastParticleAddTime>>
loopVars == <<lastFrameTime, animationFrameId, frames, frameSeq>>
observerVars == <<resizeObserver, observers, resizeScheduled>>

NoTick == [ran |-> FALSE]

\* field initialisers and constructor (index.ts 268-319): resolved tells
\* whether the container resolves, context whether getContext('2d') succeeds
Constructor(resolved, context, opts, size, seed) ==
  /\ now = 0
  /\ element = resolved
  /\ clientWidth = size[1]
  /\ clientHeight = size[2]
  /\ container = resolved
  /\ canvas = resolved
  /\ canvasAttached = resolved
  /\ ctx = (resolved /\ context)
  /\ canvasWidth = (IF resolved THEN DefaultCanvasWidth ELSE 0)
  /\ canvasHeight = (IF resolved THEN DefaultCanvasHeight ELSE 0)
  /\ width = 0
  /\ height = 0
  /\ sizes = opts
  /\ particles = <<>>
  /\ particlePool = <<>>
  /\ allocated = 0
  /\ lastParticleAddTime = now
  /\ lastFrameTime = now
  /\ resizeObserver = 0
  /\ observers = <<>>
  /\ resizeScheduled = FALSE
  /\ rng = seed
  /\ animationFrameId = 0
  /\ frames = {}
  /\ frameSeq = 0
  /\ threw = FALSE
  /\ destroys = 0
  /\ inert = ~(resolved /\ context)
  /\ lastOp = "new"
  /\ tickInfo = NoTick
  /\ events = 0

Init ==
  \E resolved \in BOOLEAN, context \in BOOLEAN, opts \in SizeOptions, size \in ClientSizes,
     seed \in Seeds :
    Constructor(resolved, context, opts, size, seed)

\* a handler evaluates a member of a reference that is null
NullDeref(executes, nonNull) == executes /\ ~nonNull

\* initializeCanvas (index.ts 321-330): the guard, then the new
\* <<width, height, canvas.width, canvas.height>>
InitializeCanvasProceeds == container /\ canvas

initializeCanvas ==
  IF InitializeCanvasProceeds
  THEN <<clientWidth, clientHeight, clientWidth, clientHeight>>
  ELSE <<width, height, canvasWidth, canvasHeight>>

\* the spawn test without the interval
SpawnDueAlways(t, last) == t - last >= 0

\* the spawn test of renderLoop (index.ts 375)
SpawnDue(t, last) == t - last >= PARTICLE_ADD_INTERVAL

\* renderLoop without its early return
RenderLoopDrawsUnguarded == TRUE

\* the early return of renderLoop (index.ts 373)
RenderLoopDraws == ctx /\ canvas

\* renderLoop (index.ts 365-383) run at time `now` with engine dimensions
\* w x h; `fired` is the set of pending callbacks this run consumes
renderLoop(w, h, fired) ==
  LET deltaTime == now - lastFrameTime
      handle    == frameSeq + 1
      due       == RenderLoopDraws /\ SpawnDue(now, lastParticleAddTime)
      count     == calculateParticleCount(w, h)
      st0       == [particles |-> particles, particlePool |-> particlePool,
                    allocated |-> allocated, n |-> 0]
      st1       == IF due THEN addParticles(count, st0, w, h, sizes, rng) ELSE st0
      st2       == IF RenderLoopDraws THEN render(st1, deltaTime, h, rng) ELSE st1
  IN  /\ lastFrameTime' = now
      /\ frameSeq' = handle
      /\ animationFrameId' = handle
      /\ frames' = (frames \ fired) \cup {[id |-> handle, at |-> now]}
      /\ particles' = st2.particles
      /\ particlePool' = st2.particlePool
      /\ allocated' = st2.allocated
      /\ rng' = (rng + st2.n) % Len(RandSeq)
      /\ lastParticleAddTime' = (IF due THEN now ELSE lastParticleAddTime)
      /\ tickInfo' = [ran            |-> TRUE,
                      drew           |-> RenderLoopDraws,
                      deltaTime      |-> deltaTime,
                      sinceSpawn     |-> now - lastParticleAddTime,
                      batches        |-> IF due THEN 1 ELSE 0,
                      count          |-> IF due THEN count ELSE 0,
                      w              |-> w,
                      h              |-> h,
                      liveBefore     |-> Len(particles),
                      liveAfterSpawn |-> Len(st1.particles),
                      poolBefore     |-> Len(particlePool),
                      poolAfterSpawn |-> Len(st1.particlePool),
                      allocBefore    |-> allocated,
                      allocAfterSpawn |-> st1.allocated]

\* ------------------------------------------------------------------ actions
\* time passes between two handlers
Advance(d) ==
  /\ events < MaxEvents
  /\ now' = now + d
  /\ events' = events + 1
  /\ lastOp' = "advance"
  /\ tickInfo' = NoTick
  /\ UNCHANGED <<envVars, domVars, dimVars, sizes, particleVars, loopVars, observerVars,
                 rng, threw, destroys, inert>>

\* the guard of init without the test of ctx
InitProceedsIgnoresContext == canvas

\* the guard of init (index.ts 520)
InitProceeds == canvas /\ ctx

\* setupResizeListener (index.ts 332-343): the guard, then the observer list
\* after new ResizeObserver(...).observe(container); a new observation has
\* reported no size yet (its last reported size is 0 x 0, so a container that
\* is 0 x 0 causes no notification); notified tells whether the callback of
\* the observer has ever run
SetupResizeListenerProceeds == container

observersAfterSetup ==
  IF SetupResizeListenerProceeds
  THEN Append(observers, [observing |-> TRUE, lastWidth |-> 0, lastHeight |-> 0,
                          notified |-> FALSE])
  ELSE observers

\* init (index.ts 519-525)
init ==
  /\ events < MaxEvents
  /\ events' = events + 1
  /\ lastOp' = "init"
  /\ IF InitProceeds
     THEN /\ width' = initializeCanvas[1]
          /\ height' = initializeCanvas[2]
          /\ canvasWidth' = initializeCanvas[3]
          /\ canvasHeight' = initializeCanvas[4]
          /\ observers' = observersAfterSetup
          /\ resizeObserver' = (IF SetupResizeListenerProceeds
                                THEN Len(observers) + 1 ELSE resizeObserver)
          /\ threw' = (threw \/ NullDeref(InitializeCanvasProceeds, container)
                             \/ NullDeref(InitializeCanvasProceeds, canvas))
          /\ renderLoop(initializeCanvas[1], initializeCanvas[2], {})
          /\ UNCHANGED resizeScheduled
     ELSE /\ tickInfo' = NoTick
          /\ UNCHANGED <<dimVars, particleVars, loopVars, observerVars, rng, threw>>
  /\ UNCHANGED <<now, envVars, domVars, sizes, destroys, inert>>

\* the browser runs a pending animation-frame callback; a callback requested
\* at time t runs in a later frame
Tick(f) ==
  /\ f \in frames
  /\ f.at < now
  /\ renderLoop(width, height, {f})
  /\ lastOp' = "tick"
  /\ UNCHANGED <<now, envVars, domVars, dimVars, sizes, observerVars, threw, destroys, inert,
                 events>>

\* the container's box changes
ContainerResize(size) ==
  /\ element
  /\ events < MaxEvents
  /\ <<clientWidth, clientHeight>> # size
  /\ clientWidth' = size[1]
  /\ clientHeight' = size[2]
  /\ events' = events + 1
  /\ lastOp' = "layout"
  /\ tickInfo' = NoTick
  /\ UNCHANGED <<now, element, domVars, dimVars, sizes, particleVars, loopVars, observerVars,
                 rng, threw, destroys, inert>>

\* the flag test of the ResizeObserver callback inverted
ResizeCallbackSchedulesInverted == resizeScheduled

\* the ResizeObserver callback and handleResize (index.ts 335-348), delivered
\* to observer o when the observed box differs from the size last reported
ResizeCallbackSchedules == ~resizeScheduled

ResizeNotify(o) ==
  /\ o \in 1 .. Len(observers)
  /\ observers[o].observing
  /\ <<clientWidth, clientHeight>> # <<observers[o].lastWidth, observers[o].lastHeight>>
  /\ observers' = [observers EXCEPT ![o].lastWidth = clientWidth,
                                    ![o].lastHeight = clientHeight,
                                    ![o].notified = TRUE]
  /\ IF ResizeCallbackSchedules
     THEN /\ resizeScheduled' = FALSE
          /\ width' = initializeCanvas[1]
          /\ height' = initializeCanvas[2]
          /\ canvasWidth' = initializeCanvas[3]
          /\ canvasHeight' = initializeCanvas[4]
     ELSE UNCHANGED <<resizeScheduled, dimVars>>
  /\ lastOp' = "resize"
  /\ tickInfo' = NoTick
  /\ UNCHANGED <<now, envVars, domVars, sizes, particleVars, loopVars, resizeObserver,
                 rng, threw, destroys, inert, events>>

\* the guards of destroy (index.ts 494, 500, 504, 508)
DestroyCancels == animationFrameId # 0
DestroyDisconnects == resizeObserver # 0
DestroyClears == ctx
DestroyRemoves == canvas /\ canvasAttached

\* cancelAnimationFrame(animationFrameId) (index.ts 495)
framesAfterCancel == {f \in frames : f.id # animationFrameId}

\* destroy that keeps canvas and ctx
referencesKeptAfterDestroy == <<FALSE, canvas, ctx>>

\* container, canvas and ctx after destroy drops them (index.ts 512-514)
referencesAfterDestroy == <<FALSE, FALSE, FALSE>>

\* destroy (index.ts 493-517)
destroy ==
  /\ frames' = (IF DestroyCancels THEN framesAfterCancel ELSE frames)
  /\ animationFrameId' = (IF DestroyCancels THEN 0 ELSE animationFrameId)
  /\ observers' = (IF DestroyDisconnects /\ resizeObserver \in 1 .. Len(observers)
                   THEN [observers EXCEPT ![resizeObserver].observing = FALSE]
                   ELSE observers)
  /\ canvasAttached' = (IF DestroyRemoves THEN FALSE ELSE canvasAttached)
  /\ threw' = (threw \/ NullDeref(DestroyDisconnects, resizeObserver # 0)
                     \/ NullDeref(DestroyClears, ctx)
                     \/ NullDeref(DestroyRemoves, canvas))
  /\ container' = referencesAfterDestroy[1]
  /\ canvas' = referencesAfterDestroy[2]
  /\ ctx' = referencesAfterDestroy[3]
  /\ particles' = <<>>
  /\ particlePool' = <<>>
  /\ destroys' = Min(2, destroys + 1)
  /\ lastOp' = "destroy"
  /\ tickInfo' = NoTick
  /\ UNCHANGED <<now, envVars, dimVars, sizes, allocated, lastParticleAddTime, lastFrameTime,
                 frameSeq, resizeObserver, resizeScheduled, rng, inert, events>>

Next ==
  \/ \E d \in Deltas : Advance(d)
  \/ init
  \/ \E f \in frames : Tick(f)
  \/ \E size \in ClientSizes : ContainerResize(size)
  \/ \E o \in 1 .. Len(observers) : ResizeNotify(o)
  \/ destroy

Spec == Init /\ [][Next]_vars

\* Spawn-count specification: an engine with a 2D context in a container of
\* any of the sizes CountSizes, driven until its first spawn batches.
CountSizes ==
  {<<0, 0>>, <<1, 1>>, <<0, 1080>>, <<320, 240>>, <<640, 480>>, <<960, 540>>, <<1280, 720>>,
   <<1600, 1296>>, <<1920, 1080>>, <<1968, 2160>>, <<2304, 1845>>, <<2560, 1440>>,
   <<2500, 1728>>, <<3840, 2160>>}

InitCount == \E size \in CountSizes : Constructor(TRUE, TRUE, <<3, 12>>, size, 0)

NextCount ==
  \/ Advance(PARTICLE_ADD_INTERVAL)
  \/ init
  \/ \E f \in frames : Tick(f)

SpecCount == InitCount /\ [][NextCount]_vars

\* End-to-end specification: an engine with a 2D context and sizes [4, 12],
\* init() called once, at construction or up to MaxGapFrames frames later,
\* and the browser running the pending callback once every frame of 16.67 ms
\* for MaxFrames frames.
MaxFrames == 32
MaxGapFrames == 2

EndToEndSizes == {<<0, 0>>, <<1280, 720>>, <<1920, 1080>>, <<3840, 2160>>}

InitEndToEnd ==
  \E size \in EndToEndSizes, seed \in Seeds : Constructor(TRUE, TRUE, <<4, 12>>, size, seed)

\* one frame of 16.67 ms passes, once every pending callback has run
AdvanceFrame ==
  /\ now < MaxFrames * NominalFrame
  /\ \A f \in frames : f.at = now
  /\ frames = {} => now < MaxGapFrames * NominalFrame
  /\ now' = now + NominalFrame
  /\ lastOp' = "advance"
  /\ tickInfo' = NoTick
  /\ UNCHANGED <<envVars, domVars, dimVars, sizes, particleVars, loopVars, observerVars,
                 rng, threw, destroys, inert, events>>

InitOnce == frameSeq = 0 /\ init

NextEndToEnd ==
  \/ AdvanceFrame
  \/ InitOnce
  \/ \E f \in frames : Tick(f)

SpecEndToEnd == InitEndToEnd /\ [][NextEndToEnd]_vars

\* Fading specification: an engine with a 2D context in a container of
\* 1280 x 720, init() called once, time passing in steps of FadeDeltas until
\* FadeHorizon, and the browser running pending callbacks.  Time keeps
\* passing and a pending callback whose frame has come is eventually run.
FadeHorizon == 2400000

FadeDeltas == {400000, 600000}

InitFade == \E seed \in Seeds : Constructor(TRUE, TRUE, <<3, 12>>, <<1280, 720>>, seed)

AdvanceFade(d) ==
  /\ now < FadeHorizon
  /\ now' = now + d
  /\ lastOp' = "advance"
  /\ tickInfo' = NoTick
  /\ UNCHANGED <<envVars, domVars, dimVars, sizes, particleVars, loopVars, observerVars,
                 rng, threw, destroys, inert, events>>

NextFade ==
  \/ \E d \in FadeDeltas : AdvanceFade(d)
  \/ InitOnce
  \/ \E f \in frames : Tick(f)

\* a step in which the browser runs a pending callback: Tick(f) for some f,
\* told by its guard and by what every run of renderLoop writes
TickStep ==
  /\ \E f \in frames : f.at < now
  /\ lastOp' = "tick"
  /\ frameSeq' = frameSeq + 1

SpecFade ==
  /\ InitFade
  /\ [][NextFade]_vars
  /\ WF_vars(\E d \in FadeDeltas : AdvanceFade(d))
  /\ WF_<<lastOp, frameSeq>>(TickStep)

\* ------------------------------------------------------------------- claims
\* the observers still attached to the container
Observing == {o \in 1 .. Len(observers) : observers[o].observing}

\* the engine's fields and what the browser holds for it
ProgramState ==
  <<container, canvas, ctx, canvasAttached, canvasWidth, canvasHeight, width, height,
    particles, particlePool, allocated, lastParticleAddTime, lastFrameTime, resizeObserver,
    observers, resizeScheduled, animationFrameId, frames, rng, threw>>

\* C1: after destroy() has returned no run of renderLoop happens and no
\* animation-frame callback remains scheduled.
NoTickAfterDestroy == destroys > 0 => (frames = {} /\ lastOp # "tick")

\* C2: on a live instance on which init() succeeded, however often init() was
\* called, exactly one tick chain is pending and exactly one resize observer
\* is attached.
InitIdempotent ==
  (destroys = 0 /\ ~inert /\ frameSeq > 0) =>
    (Cardinality(frames) = 1 /\ Cardinality(Observing) = 1)

\* C3: a second destroy() right after a first raises no error, changes
\* nothing, and the state it leaves has no canvas attached, null references,
\* no pending tick and empty live set and pool.
DestroyIdempotent ==
  [][(lastOp = "destroy" /\ lastOp' = "destroy" /\ destroys = 1 /\ destroys' = 2) =>
       /\ ~threw'
       /\ ProgramState' = ProgramState
       /\ ~canvasAttached' /\ ~container' /\ ~canvas' /\ ~ctx'
       /\ frames' = {}
       /\ particles' = <<>> /\ particlePool' = <<>>]_vars

\* C4: an instance constructed without container or without 2D context stays
\* inert: whatever is called, no tick is scheduled, no observer exists, no
\* particle is spawned or allocated, the engine's dimensions and timers keep
\* their constructed values and no handler raises an error.
InertInstanceStaysInert ==
  inert =>
    /\ frames = {} /\ animationFrameId = 0 /\ frameSeq = 0
    /\ observers = <<>> /\ resizeObserver = 0 /\ ~resizeScheduled
    /\ particles = <<>> /\ particlePool = <<>> /\ allocated = 0
    /\ width = 0 /\ height = 0
    /\ lastFrameTime = 0 /\ lastParticleAddTime = 0
    /\ ~ctx
    /\ ~threw

InertInitCalled == inert /\ element /\ lastOp = "init" /\ destroys = 0

\* C5: once destroy() has been called, an init() changes nothing, the
\* references stay null, and an engine with no tick pending never gets one
\* again.
TerminalStop ==
  [][destroys > 0 =>
       /\ (lastOp' = "init" /\ events' # events => ProgramState' = ProgramState)
       /\ ~container' /\ ~canvas' /\ ~ctx'
       /\ (frames = {} => frames' = {})
       /\ particles' = <<>> /\ particlePool' = <<>>]_vars

InitAfterDestroy == destroys > 0 /\ lastOp = "init" /\ ~inert

\* C6: every live particle has 0 <= opacity <= 1 and minSize <= size <= maxSize.
LiveParticlesInRange ==
  \A i \in 1 .. Len(particles) :
    /\ 0 <= particles[i].opacity /\ particles[i].opacity <= OpacityOne
    /\ sizes[1] * PosScale <= particles[i].size /\ particles[i].size <= sizes[2] * PosScale

FadedParticleLive ==
  /\ \E i \in 1 .. Len(particles) : 0 < particles[i].opacity /\ particles[i].opacity < OpacityOne
  /\ \E i \in 1 .. Len(particles) : particles[i].size = sizes[1] * PosScale
  /\ \E i \in 1 .. Len(particles) : particles[i].size > sizes[1] * PosScale

\* C7: a live particle younger than the maturity threshold has opacity
\* exactly 1, and from one state to the next the opacity of a particle that
\* stays live never increases.
OpacityOneWhileYoung ==
  \A i \in 1 .. Len(particles) :
    particles[i].elapsedTime < MAX_ELAPSED_TIME => particles[i].opacity = OpacityOne

OpacityNeverIncreases ==
  \A i \in 1 .. Len(particles) : \A j \in 1 .. Len(particles') :
    particles[i].id = particles'[j].id => particles'[j].opacity <= particles[i].opacity

OpacityFadesAfterMaturity == [](OpacityOneWhileYoung) /\ [][OpacityNeverIncreases]_vars

FadedTwiceUpdatedParticle ==
  /\ lastOp = "tick"
  /\ tickInfo.ran
  /\ \E i \in 1 .. Len(particles) :
       /\ particles[i].elapsedTime > tickInfo.deltaTime
       /\ particles[i].opacity < OpacityOne
       /\ particles[i].opacity > 0

\* C8: the number of particles a batch spawns is round(30 * w * h / (1920 *
\* 1080)), halves rounded up, clamped to [10, 100].
ExactCount(w, h) ==
  Max(MinParticles,
      Min(MaxParticles,
          (2 * PARTICLE_COUNT * w * h + BaseWidth * BaseHeight) \div (2 * BaseWidth * BaseHeight)))

SpawnCountMatchesFormula ==
  (tickInfo.ran /\ tickInfo.batches = 1) =>
    /\ tickInfo.liveAfterSpawn - tickInfo.liveBefore = ExactCount(tickInfo.w, tickInfo.h)
    /\ tickInfo.count = ExactCount(tickInfo.w, tickInfo.h)

\* C9: a run of renderLoop spawns one batch when it draws and at least
\* PARTICLE_ADD_INTERVAL has passed since the previous batch, however long the
\* gap, and spawns nothing otherwise.
SpawnRateLimited ==
  tickInfo.ran =>
    /\ tickInfo.liveAfterSpawn - tickInfo.liveBefore =
         (IF tickInfo.drew /\ tickInfo.sinceSpawn >= PARTICLE_ADD_INTERVAL
          THEN calculateParticleCount(tickInfo.w, tickInfo.h) ELSE 0)
    /\ tickInfo.batches <= 1
    /\ (tickInfo.batches = 1 => lastParticleAddTime = now)
    /\ (tickInfo.batches = 0 =>
          /\ lastParticleAddTime = now - tickInfo.sinceSpawn
          /\ tickInfo.allocAfterSpawn = tickInfo.allocBefore
          /\ tickInfo.poolAfterSpawn = tickInfo.poolBefore)

OneBatchAfterLongGap ==
  /\ tickInfo.ran
  /\ tickInfo.batches = 1
  /\ tickInfo.sinceSpawn >= 2 * PARTICLE_ADD_INTERVAL
  /\ tickInfo.liveAfterSpawn - tickInfo.liveBefore = tickInfo.count

\* C10: a batch of N particles spawned while the pool holds at least N
\* records allocates no record and shrinks the pool by exactly N.
PoolReuse ==
  (tickInfo.ran /\ tickInfo.batches = 1 /\ tickInfo.poolBefore >= tickInfo.count) =>
    /\ tickInfo.allocAfterSpawn = tickInfo.allocBefore
    /\ allocated = tickInfo.allocBefore
    /\ tickInfo.poolAfterSpawn = tickInfo.poolBefore - tickInfo.count

BatchFromPool ==
  /\ tickInfo.ran
  /\ tickInfo.batches = 1
  /\ tickInfo.count >= MinParticles
  /\ tickInfo.poolBefore >= tickInfo.count

\* the identities of the Particle objects a collection references
RecordIds(q) == {q[i].id : i \in 1 .. Len(q)}

\* C12: the first successful init() captures the timers: when it returns,
\* lastFrameTime and lastParticleAddTime are the time of init(), and its own
\* run of renderLoop has seen no time pass and spawned nothing.
StartCapturesTimers ==
  (lastOp = "init" /\ tickInfo.ran /\ frameSeq = 1) =>
    /\ lastFrameTime = now
    /\ lastParticleAddTime = now
    /\ tickInfo.deltaTime = 0
    /\ tickInfo.batches = 0

\* C13: no Particle object is referenced by both the live set and the pool,
\* and none appears twice in either.
NoAliasing ==
  /\ RecordIds(particles) \cap RecordIds(particlePool) = {}
  /\ Cardinality(RecordIds(particles)) = Len(particles)
  /\ Cardinality(RecordIds(particlePool)) = Len(particlePool)

BothCollectionsPopulated ==
  /\ lastOp = "tick"
  /\ particles # <<>>
  /\ particlePool # <<>>

\* C14: in a run of renderLoop that draws, every particle live before the run
\* is found exactly once afterwards, in the live set or in the pool, aged by
\* exactly one deltaTime; every particle live afterwards that was not live
\* before has been spawned by the run and aged by one deltaTime; no particle
\* live afterwards has opacity <= 0; and every particle that left the live
\* set is in the pool.
RenderUpdatesEachOnce ==
  [][(tickInfo'.ran /\ tickInfo'.drew) =>
       LET dt    == tickInfo'.deltaTime
           after == particles' \o particlePool'
       IN  /\ \A i \in 1 .. Len(particles) :
                /\ Cardinality({j \in 1 .. Len(after) : after[j].id = particles[i].id}) = 1
                /\ \A j \in 1 .. Len(after) :
                     after[j].id = particles[i].id =>
                       after[j].elapsedTime = particles[i].elapsedTime + dt
                /\ (particles[i].id \notin RecordIds(particles') =>
                      particles[i].id \in RecordIds(particlePool'))
           /\ \A j \in 1 .. Len(particles') :
                /\ particles'[j].opacity > 0
                /\ (particles'[j].id \notin RecordIds(particles) =>
                      particles'[j].elapsedTime = dt)
           /\ Len(after) = Len(particles) + Len(particlePool) + (allocated' - allocated)]_vars

SomeRetiredSomeKept ==
  /\ lastOp = "tick"
  /\ tickInfo.ran
  /\ tickInfo.deltaTime > 0
  /\ Len(particlePool) > tickInfo.poolAfterSpawn
  /\ particles # <<>>

\* C15: for every record in the pool, with whatever its previous life left in
\* it, resetParticle gives the record createParticle gives for the same x, y
\* and random draws (here the generator's next draws).
PoolPathEqualsFreshPath ==
  \A i \in 1 .. Len(particlePool) :
    LET x  == (Random(rng, 0) * width * PosScale) \div RandDen
        y  == height * PosScale
        k1 == Random(rng, 1)
        k2 == Random(rng, 2)
        k3 == Random(rng, 3)
    IN  resetParticle(particlePool[i], x, y, sizes, k1, k2, k3)
          = createParticle(particlePool[i].id, x, y, sizes, k1, k2, k3)

StaleRecordPooled ==
  /\ tickInfo.ran
  /\ tickInfo.batches = 1
  /\ tickInfo.poolBefore > 0
  /\ \E i \in 1 .. Len(particlePool) :
       /\ particlePool[i].elapsedTime > 0
       /\ particlePool[i].opacity = 0
       /\ particlePool[i].x # particlePool[i].initialX
       /\ particlePool[i].velocityX # DEFAULT_VELOCITY_X

\* C16: until destroy() the live set and the pool together hold every
\* Particle object ever created, each once; objects are created only by a
\* spawn batch, and only as many as the pool could not supply.
RecordConservation ==
  /\ [](destroys = 0 =>
          /\ Len(particles) + Len(particlePool) = allocated
          /\ RecordIds(particles) \cup RecordIds(particlePool) = 1 .. allocated)
  /\ [][allocated' # allocated =>
          /\ tickInfo'.ran
          /\ tickInfo'.batches = 1
          /\ tickInfo'.poolBefore < tickInfo'.count
          /\ allocated' - allocated = tickInfo'.count - tickInfo'.poolBefore]_vars

RecordsCycle ==
  /\ destroys = 0
  /\ tickInfo.ran
  /\ tickInfo.batches = 1
  /\ tickInfo.allocAfterSpawn > tickInfo.allocBefore
  /\ tickInfo.allocBefore > 0
  /\ particles # <<>>
  /\ particlePool # <<>>

\* every observer attached to the container has run its callback, and the
\* box it reported last is the container's current box (the container has
\* not changed since the last notification)
ObserverUpToDate ==
  /\ Observing # {}
  /\ \A o \in Observing :
       /\ observers[o].notified
       /\ observers[o].lastWidth = clientWidth
       /\ observers[o].lastHeight = clientHeight

\* C18: no resize recompute is ever left pending; a resize notification
\* changes nothing of the particles or of the loop; and a run of renderLoop
\* that draws after a notification, the container's box unchanged since,
\* draws with width, height and canvas dimensions equal to the container's
\* current client dimensions.

ResizeAppliedBeforeDraw ==
  /\ [](/\ ~resizeScheduled
        /\ (tickInfo.ran /\ tickInfo.drew /\ ObserverUpToDate) =>
             /\ tickInfo.w = clientWidth /\ tickInfo.h = clientHeight
             /\ width = clientWidth /\ height = clientHeight
             /\ canvasWidth = clientWidth /\ canvasHeight = clientHeight)
  /\ [][lastOp' = "resize" =>
          UNCHANGED <<particles, particlePool, allocated, lastParticleAddTime, lastFrameTime,
                      animationFrameId, frames, frameSeq, rng>>]_vars

DrawAfterNotification ==
  /\ lastOp = "tick"
  /\ tickInfo.ran
  /\ tickInfo.drew
  /\ ObserverUpToDate
  /\ clientWidth # 0
  /\ tickInfo.w = clientWidth

\* C19: every particle a run of renderLoop spawns is still in the live set
\* when the run ends, aged by that run's deltaTime.
SpawnedParticleSurvivesTick ==
  (tickInfo.ran /\ tickInfo.batches = 1) =>
    /\ Len(particles) >= tickInfo.count
    /\ \A j \in (Len(particles) - tickInfo.count + 1) .. Len(particles) :
         particles[j].elapsedTime = tickInfo.deltaTime

\* C20: once destroy() has been called, no handler that still runs puts a
\* particle in the live set or the pool, creates a Particle object, changes
\* width, height or the canvas dimensions, or re-attaches the canvas.
StoppedEngineUntouched ==
  [][destroys > 0 =>
       /\ particles' = <<>>
       /\ particlePool' = <<>>
       /\ allocated' = allocated
       /\ UNCHANGED dimVars
       /\ ~canvasAttached']_vars

StaleTickAfterDestroy ==
  /\ destroys > 0
  /\ lastOp = "tick"
  /\ tickInfo.ran
  /\ ~tickInfo.drew
  /\ tickInfo.sinceSpawn >= PARTICLE_ADD_INTERVAL

\* number of frames of 16.67 ms that make up the spawn interval
TicksToInterval == (PARTICLE_ADD_INTERVAL + NominalFrame - 1) \div NominalFrame

FadeTime == (OpacityOne + DEFAULT_OPACITY_DECAY - 1) \div DEFAULT_OPACITY_DECAY
ParticleLifetime == MAX_ELAPSED_TIME + FadeTime

\* the Particle objects the fading specification can create
FadeRecords == 1 .. (4 * calculateParticleCount(1280, 720))

LiveId(id) == \E i \in 1 .. Len(particles) : particles[i].id = id
PooledId(id) == \E i \in 1 .. Len(particlePool) : particlePool[i].id = id

\* C17: while ticks keep running, every particle in the live set is
\* eventually moved to the pool (here: every particle live at a time that
\* leaves ParticleLifetime before the horizon where the model stops the
\* clock); no live particle is older than ParticleLifetime, so the live set
\* never holds more than the batches of one lifetime.
EveryParticleRetires ==
  /\ [](/\ allocated \in {0} \cup FadeRecords
        /\ \A i \in 1 .. Len(particles) : particles[i].elapsedTime < ParticleLifetime
        /\ Len(particles) <= MaxParticles * (ParticleLifetime \div PARTICLE_ADD_INTERVAL + 1))
  /\ \A id \in FadeRecords :
       (LiveId(id) /\ now + ParticleLifetime <= FadeHorizon) ~> PooledId(id)

ParticleFadedOverTicks ==
  /\ lastOp = "tick"
  /\ tickInfo.ran
  /\ Len(particlePool) > tickInfo.poolAfterSpawn
  /\ \E i \in 1 .. Len(particlePool) :
       /\ particlePool[i].opacity = 0
       /\ particlePool[i].elapsedTime > 2 * tickInfo.deltaTime

====
